---- MODULE Spec2Model ----
(***************************************************************************)
(* Model of the Spectyra NLI service (src/infra/nli-service/main.py).      *)
(*                                                                         *)
(* State: the module globals model / tokenizer / label_map, the position   *)
(* of the lifespan context manager, the environment configuration read at  *)
(* import, the request handlers in flight and the owner of the event loop. *)
(*                                                                         *)
(* Handlers are coroutines on one event loop.  A handler holds the loop    *)
(* from its first statement to its return unless it reaches an await; the  *)
(* source has none inside a handler.  The handlers have no guard of their  *)
(* own besides the None tests on the globals, so the model lets a request  *)
(* be dispatched in every lifespan position in which the process is alive  *)
(* (before the lifespan ran, at its yield, past its yield).  An exception  *)
(* leaving the lifespan before its yield aborts startup: nothing is        *)
(* dispatched afterwards.                                                  *)
(***************************************************************************)
EXTENDS Integers, Sequences, FiniteSets, TLC

VARIABLES cfg, model, tokenizer, label_map, phase, tasks, loop

vars == <<cfg, model, tokenizer, label_map, phase, tasks, loop>>

----------------------------------------------------------------------------
(* Bounds *)

MaxBatchSize == 3       \* BATCH_SIZE ranges over 1..MaxBatchSize
SmallLen     == 3       \* request lengths 0..SmallLen, besides those around the cap
MAX_LENGTH   == 2       \* characters kept per field (environment, default 256)
NumTasks     == 2       \* handler coroutines that can exist at once

(* Program constants *)

MAX_PAIRS == 100        \* cap on len(request.pairs)
NUM_LABELS == 3         \* output classes of an MNLI head
Scale == 10000000       \* probabilities are kept in units of 1/Scale (float32 digits)

----------------------------------------------------------------------------
(* Configuration: main.py 35-52 *)

ModelIds == {"microsoft/deberta-v3-large-mnli", "roberta-large-mnli"}

\* "deberta" in NLI_MODEL.lower()
ContainsDeberta(id) == id \in {"microsoft/deberta-v3-large-mnli"}

LABEL_MAP == [i \in 0..2 |-> <<"entailment", "neutral", "contradiction">>[i + 1]]

DEBERTA_LABEL_MAP == [i \in 0..2 |-> <<"contradiction", "neutral", "entailment">>[i + 1]]

Labels == {"entailment", "neutral", "contradiction"}

Configs ==
    [NLI_MODEL : ModelIds, DEVICE : {"cpu", "cuda"}, cudaAvailable : BOOLEAN,
     BATCH_SIZE : 1..MaxBatchSize]

----------------------------------------------------------------------------
(* Python None for the record-valued globals and for the dict-valued one *)

None == [tag |-> "None"]

NoneMap == << >>

IsLoaded(x) == x # None

PlacedDevice(c) == IF c.DEVICE = "cuda" /\ c.cudaAvailable THEN "cuda" ELSE "cpu"

----------------------------------------------------------------------------
(* load_model: main.py 60-85.  LoadModelPrefix(c, g, k) is the value of    *)
(* the three globals after the first k of its five statements have run.    *)

LOAD_STEPS == 5

Globals(m, t, l) == [model |-> m, tokenizer |-> t, label_map |-> l]

\* AutoModelForSequenceClassification.from_pretrained(NLI_MODEL)
PretrainedModel(c) ==
    [tag |-> "Model", weights |-> c.NLI_MODEL, device |-> "cpu", training |-> FALSE]

\* AutoTokenizer.from_pretrained(NLI_MODEL)
PretrainedTokenizer(c) == [tag |-> "Tokenizer", vocab |-> c.NLI_MODEL]

SelectLabelMap(c) ==
    IF ContainsDeberta(c.NLI_MODEL) THEN DEBERTA_LABEL_MAP ELSE LABEL_MAP

LoadStatement(c, g, k) ==
    CASE k = 1 -> [g EXCEPT !.tokenizer = PretrainedTokenizer(c)]
      [] k = 2 -> [g EXCEPT !.model = PretrainedModel(c)]
      [] k = 3 -> [g EXCEPT !.model = [g.model EXCEPT !.device = PlacedDevice(c)]]
      [] k = 4 -> [g EXCEPT !.model = [g.model EXCEPT !.training = FALSE]]
      [] k = 5 -> [g EXCEPT !.label_map = SelectLabelMap(c)]

RECURSIVE LoadModelPrefix(_, _, _)
LoadModelPrefix(c, g, k) ==
    IF k = 0 THEN g ELSE LoadStatement(c, LoadModelPrefix(c, g, k - 1), k)

\* failAt = 0: every statement succeeds; failAt = k: statement k raises
load_model(c, g, failAt) ==
    IF failAt = 0
    THEN [raised |-> FALSE, g |-> LoadModelPrefix(c, g, LOAD_STEPS)]
    ELSE [raised |-> TRUE,  g |-> LoadModelPrefix(c, g, failAt - 1)]

----------------------------------------------------------------------------
(* lifespan: main.py 88-94 *)

\* mutant: a failed load is retried
LifespanAfterLoad_Retry(raised) == IF raised THEN "uninitialized" ELSE "ready"

\* mutant: the exception of load_model is swallowed and the lifespan yields
LifespanAfterLoad_Swallow(raised) == "ready"

\* position of the lifespan after load_model() returned or raised
LifespanAfterLoad(raised) == IF raised THEN "failed" ELSE "ready"

\* the code after the yield only logs
LifespanTeardown(g) == g

\* lifespan positions in which the process is alive and can be handed a request
Dispatchable(p) == p \in {"uninitialized", "ready", "shutting_down"}

----------------------------------------------------------------------------
(* Requests: main.py 106-113.  A text is a sequence of characters 1..2.    *)

PairPool ==
    << [premise |-> <<1, 2, 1>>, hypothesis |-> <<2>>],
       [premise |-> <<2, 2>>,    hypothesis |-> <<1, 1, 2>>],
       [premise |-> <<1>>,       hypothesis |-> << >>] >>

ReqPairs(n, seed) == [i \in 1..n |-> PairPool[((i + seed) % Len(PairPool)) + 1]]

Lens == (0..SmallLen) \cup {MAX_PAIRS, MAX_PAIRS + 1}

NliRequests ==
    { [kind |-> "nli", pairs |-> ReqPairs(n, seed), model |-> m] :
        n \in Lens, seed \in {0, 1}, m \in {"None", "other-model"} }

Requests ==
    NliRequests \cup
    { [kind |-> k, pairs |-> << >>, model |-> "None"] : k \in {"health", "root"} }

----------------------------------------------------------------------------
(* classify_batch: main.py 186-231 *)

Min(a, b) == IF a < b THEN a ELSE b

Max(a, b) == IF a < b THEN b ELSE a

\* Python s[:n]
Prefix(s, n) == SubSeq(s, 1, Min(Len(s), n))

\* mutant: the slice stops one element early
Slice_DropLast(s, lo, hi) == SubSeq(s, lo + 1, Min(Len(s), hi - 1))

\* Python s[lo:hi] on a list, 0-based, hi exclusive
Slice(s, lo, hi) == SubSeq(s, lo + 1, Min(Len(s), hi))

SEP == 0

PAD == 9

\* truncation=True, max_length: drop the last token of the longer text until
\* the pair fits (the second text gives way on a tie)
RECURSIVE TruncatePair(_, _, _)
TruncatePair(p, h, budget) ==
    IF Len(p) + Len(h) <= budget THEN <<p, h>>
    ELSE IF Len(p) > Len(h) THEN TruncatePair(Prefix(p, Len(p) - 1), h, budget)
    ELSE TruncatePair(p, Prefix(h, Len(h) - 1), budget)

\* one (premise, hypothesis) pair as a single model input
Encode(p, h, budget) ==
    LET t == TruncatePair(p, h, budget) IN t[1] \o <<SEP>> \o t[2]

RECURSIVE MaxLenOf(_)
MaxLenOf(seqs) ==
    IF seqs = << >> THEN 0 ELSE Max(Len(seqs[1]), MaxLenOf(Tail(seqs)))

\* padding=True: every item is padded to the longest of the batch; the
\* attention mask marks the tokens that are not padding
Pad(ids, width) ==
    [input_ids      |-> ids \o [j \in 1..(width - Len(ids)) |-> PAD],
     attention_mask |-> [j \in 1..width |-> IF j <= Len(ids) THEN 1 ELSE 0]]

\* tokenizer(premises, hypotheses, padding=True, truncation=True, max_length=MAX_LENGTH)
Tokenize(premises, hypotheses) ==
    LET enc == [k \in 1..Len(premises) |-> Encode(premises[k], hypotheses[k], MAX_LENGTH)]
        w   == MaxLenOf(enc)
    IN  [k \in 1..Len(premises) |-> Pad(enc[k], w)]

RECURSIVE WeightedSum(_, _, _)
WeightedSum(inp, j, c) ==
    IF j = 0 THEN 0
    ELSE inp.attention_mask[j] * inp.input_ids[j] * (j + c) + WeightedSum(inp, j - 1, c)

Bias(m) == IF ContainsDeberta(m.weights) THEN 1 ELSE 2

LOGIT_RANGE == 3

\* model(**inputs).logits for one item: a deterministic function of the
\* weights and of the tokens the attention mask lets through
Logits(m, inp) ==
    [c \in 0..(NUM_LABELS - 1) |->
        (WeightedSum(inp, Len(inp.input_ids), c) + Bias(m) * c) % LOGIT_RANGE]

RECURSIVE Pow2(_)
Pow2(n) == IF n = 0 THEN 1 ELSE 2 * Pow2(n - 1)

RECURSIVE SumTo(_, _)
SumTo(f, n) == IF n < 0 THEN 0 ELSE f[n] + SumTo(f, n - 1)

\* mutant: each class is squashed on its own (sigmoid), nothing is normalised
Softmax_Sigmoid(logits) ==
    [c \in DOMAIN logits |-> (Pow2(logits[c]) * Scale) \div (1 + Pow2(logits[c]))]

\* torch.softmax(logits, dim=-1), in units of 1/Scale
Softmax(logits) ==
    LET e == [c \in DOMAIN logits |-> Pow2(logits[c])]
        z == SumTo(e, NUM_LABELS - 1)
    IN  [c \in DOMAIN logits |-> (e[c] * Scale) \div z]

\* torch.argmax: the first index that holds the maximum
ArgMax(p) ==
    CHOOSE i \in DOMAIN p :
        /\ \A j \in DOMAIN p : p[j] <= p[i]
        /\ \A j \in DOMAIN p : j < i => p[j] < p[i]

\* {label_map[i]: float(probs[idx][i]) for i in range(len(label_map))}:
\* a later i overwrites an earlier one with the same key
ProbDict(lm, p) ==
    LET n == Cardinality(DOMAIN lm) IN
    [lab \in {lm[i] : i \in 0..(n - 1)} |->
        p[CHOOSE i \in 0..(n - 1) :
            lm[i] = lab /\ \A j \in 0..(n - 1) : lm[j] = lab => j <= i]]

\* mutant: the best label is looked up in the static LABEL_MAP
ResultItem_StaticMap(lm, p) ==
    LET best_idx == ArgMax(p) IN
    [label |-> LABEL_MAP[best_idx], confidence |-> p[best_idx], scores |-> ProbDict(lm, p)]

\* lines 215-229 for one row of probs
ResultItem(lm, p) ==
    LET best_idx == ArgMax(p) IN
    [label |-> lm[best_idx], confidence |-> p[best_idx], scores |-> ProbDict(lm, p)]

RECURSIVE ColumnSum(_, _, _)
ColumnSum(rows, k, c) ==
    IF k = 0 THEN 0 ELSE Pow2(rows[k][c]) + ColumnSum(rows, k - 1, c)

\* mutant: torch.softmax(logits, dim=0), normalising over the batch axis
classify_batch_SoftmaxDim0(pairs, m, lm) ==
    LET premises   == [k \in 1..Len(pairs) |-> Prefix(pairs[k].premise, MAX_LENGTH)]
        hypotheses == [k \in 1..Len(pairs) |-> Prefix(pairs[k].hypothesis, MAX_LENGTH)]
        inputs     == Tokenize(premises, hypotheses)
        logits     == [k \in 1..Len(pairs) |-> Logits(m, inputs[k])]
        probs      == [k \in 1..Len(pairs) |->
                         [c \in 0..(NUM_LABELS - 1) |->
                            (Pow2(logits[k][c]) * Scale) \div ColumnSum(logits, Len(pairs), c)]]
    IN  [idx \in 1..Len(pairs) |-> ResultItem(lm, probs[idx])]

\* classify_batch(pairs) with the globals m, lm
classify_batch(pairs, m, lm) ==
    LET premises   == [k \in 1..Len(pairs) |-> Prefix(pairs[k].premise, MAX_LENGTH)]
        hypotheses == [k \in 1..Len(pairs) |-> Prefix(pairs[k].hypothesis, MAX_LENGTH)]
        inputs     == Tokenize(premises, hypotheses)
        probs      == [k \in 1..Len(pairs) |-> Softmax(Logits(m, inputs[k]))]
    IN  [idx \in 1..Len(pairs) |-> ResultItem(lm, probs[idx])]

----------------------------------------------------------------------------
(* Responses: main.py 116-129; HTTPException and unhandled exceptions *)

NoBody == [status |-> "", service |-> "", model |-> "", device |-> ""]

Response(code, results, body) == [status |-> code, results |-> results, body |-> body]

HttpError(code) == Response(code, << >>, NoBody)

NoResp == HttpError(0)

NoReq == [kind |-> "none", pairs |-> << >>, model |-> "None"]

----------------------------------------------------------------------------
(* Handlers: main.py 132-183 *)

\* mutant: the None test is missing
health_check_NoGate(c, g) ==
    Response(200, << >>,
        [NoBody EXCEPT !.status = "healthy", !.model = c.NLI_MODEL, !.device = c.DEVICE])

\* health_check, lines 135-142
health_check(c, g) ==
    IF g.model = None THEN HttpError(503)
    ELSE Response(200, << >>,
            [NoBody EXCEPT !.status = "healthy", !.model = c.NLI_MODEL, !.device = c.DEVICE])

\* root, lines 148-156
root(c) ==
    Response(200, << >>,
        [NoBody EXCEPT !.service = "Spectyra NLI Service", !.model = c.NLI_MODEL,
                       !.device = c.DEVICE])

\* mutant: the empty test comes before the None test
NliGate_EmptyFirst(req, g) ==
    IF Len(req.pairs) = 0 THEN "empty"
    ELSE IF g.model = None \/ g.tokenizer = None THEN "unavailable"
    ELSE IF Len(req.pairs) > MAX_PAIRS THEN "too_many"
    ELSE "admit"

\* mutant: the cap test comes before the None test
NliGate_CapFirst(req, g) ==
    IF Len(req.pairs) > MAX_PAIRS THEN "too_many"
    ELSE IF g.model = None \/ g.tokenizer = None THEN "unavailable"
    ELSE IF Len(req.pairs) = 0 THEN "empty"
    ELSE "admit"

\* mutant: the cap test is >= instead of >
NliGate_CapExclusive(req, g) ==
    IF g.model = None \/ g.tokenizer = None THEN "unavailable"
    ELSE IF Len(req.pairs) = 0 THEN "empty"
    ELSE IF Len(req.pairs) >= MAX_PAIRS THEN "too_many"
    ELSE "admit"

\* mutant: a request that names a model other than the loaded one is refused
NliGate_HonoursModel(req, g) ==
    IF g.model = None \/ g.tokenizer = None \/ req.model # "None" THEN "unavailable"
    ELSE IF Len(req.pairs) = 0 THEN "empty"
    ELSE IF Len(req.pairs) > MAX_PAIRS THEN "too_many"
    ELSE "admit"

\* classify_nli, lines 166-173: what the handler does before its loop
NliGate(req, g) ==
    IF g.model = None \/ g.tokenizer = None THEN "unavailable"
    ELSE IF Len(req.pairs) = 0 THEN "empty"
    ELSE IF Len(req.pairs) > MAX_PAIRS THEN "too_many"
    ELSE "admit"

\* mutant: range(0, len(request.pairs)), the step is forgotten
NextIndex_StepOne(i, B) == i + 1

\* range(0, len(request.pairs), BATCH_SIZE), line 178: the index after i
NextIndex(i, B) == i + B

\* mutant: the exception is caught and what has been classified is returned
BatchFailure_ReturnPartial(tk, calls) ==
    [tk EXCEPT !.pc = "done", !.calls = calls, !.resp = Response(200, tk.results, NoBody)]

\* an exception raised inside the loop is not caught (lines 178-181): the
\* handler is left and the request is answered 500
BatchFailure(tk, calls) ==
    [tk EXCEPT !.pc = "done", !.calls = calls, !.resp = HttpError(500)]

\* mutant: a request that names another model makes the handler fall back to
\* the generic label map for the rest of the process
HandlerGlobals_SwitchMap(req, g) ==
    IF req.model # "None" /\ g.label_map # NoneMap
    THEN [g EXCEPT !.label_map = LABEL_MAP]
    ELSE g

\* what a handler does to the globals: none of lines 133-231 declares them
\* global or assigns them
HandlerGlobals(req, g) == g

\* mutant: each batch is awaited (handed to an executor)
Awaits_AtBatch(step) == step = "batch"

\* a handler coroutine gives up the event loop only at an await; lines
\* 166-183 and 186-231 contain none
Awaits(step) == FALSE

\* classify_batch raises when a global it subscripts is None
BatchRaises(g) == g.model = None \/ g.tokenizer = None \/ g.label_map = NoneMap

Tasks == 1..NumTasks

\* arr: lifespan position when the request arrived; adm: when its handler ran
\* its first statement; calls: the slices handed to classify_batch so far
IdleTask ==
    [pc |-> "idle", req |-> NoReq, i |-> 0, results |-> << >>, calls |-> << >>,
     resp |-> NoResp, arr |-> "none", adm |-> "none"]

G == Globals(model, tokenizer, label_map)

----------------------------------------------------------------------------
(* The state machine *)

Init ==
    /\ cfg \in Configs
    /\ model = None
    /\ tokenizer = None
    /\ label_map = NoneMap
    /\ phase = "uninitialized"
    /\ tasks = [t \in Tasks |-> IdleTask]
    /\ loop = 0

SetGlobals(g) ==
    /\ model' = g.model
    /\ tokenizer' = g.tokenizer
    /\ label_map' = g.label_map

\* lifespan up to its yield (lines 89-92); load_model is synchronous
Startup ==
    /\ phase = "uninitialized"
    /\ loop = 0
    /\ \E failAt \in 0..LOAD_STEPS :
          LET r == load_model(cfg, G, failAt) IN
          /\ SetGlobals(r.g)
          /\ phase' = LifespanAfterLoad(r.raised)
    /\ UNCHANGED <<cfg, tasks, loop>>

\* lifespan past its yield (lines 93-94)
Shutdown ==
    /\ phase = "ready"
    /\ loop = 0
    /\ phase' = "shutting_down"
    /\ SetGlobals(LifespanTeardown(G))
    /\ UNCHANGED <<cfg, tasks, loop>>

\* a request is read from the network and its handler coroutine is created
Receive(t, req) ==
    /\ Dispatchable(phase)
    /\ tasks[t].pc = "idle"
    /\ tasks' = [tasks EXCEPT ![t] = [IdleTask EXCEPT !.pc = "start", !.req = req,
                                                          !.arr = phase]]
    /\ UNCHANGED <<cfg, model, tokenizer, label_map, phase, loop>>

Finish(t, resp) ==
    tasks' = [tasks EXCEPT ![t].pc = "done", ![t].resp = resp, ![t].adm = phase]

\* GET /health
HealthCheck(t) ==
    /\ Dispatchable(phase)
    /\ loop = 0
    /\ tasks[t].pc = "start"
    /\ tasks[t].req.kind = "health"
    /\ Finish(t, health_check(cfg, G))
    /\ SetGlobals(HandlerGlobals(tasks[t].req, G))
    /\ UNCHANGED <<cfg, phase, loop>>

\* GET /
Root(t) ==
    /\ Dispatchable(phase)
    /\ loop = 0
    /\ tasks[t].pc = "start"
    /\ tasks[t].req.kind = "root"
    /\ Finish(t, root(cfg))
    /\ SetGlobals(HandlerGlobals(tasks[t].req, G))
    /\ UNCHANGED <<cfg, phase, loop>>

\* POST /nli, lines 166-175
NliEnter(t) ==
    /\ Dispatchable(phase)
    /\ loop = 0
    /\ tasks[t].pc = "start"
    /\ tasks[t].req.kind = "nli"
    /\ LET gate == NliGate(tasks[t].req, G) IN
       CASE gate = "unavailable" -> Finish(t, HttpError(503)) /\ loop' = 0
         [] gate = "empty"       -> Finish(t, Response(200, << >>, NoBody)) /\ loop' = 0
         [] gate = "too_many"    -> Finish(t, HttpError(400)) /\ loop' = 0
         [] gate = "admit"       ->
               /\ tasks' = [tasks EXCEPT ![t].pc = "loop", ![t].adm = phase]
               /\ loop' = IF Awaits("gate") THEN 0 ELSE t
    /\ SetGlobals(HandlerGlobals(tasks[t].req, G))
    /\ UNCHANGED <<cfg, phase>>

\* one iteration of the loop of lines 178-181: classify_batch either raises
\* (always, when a global it uses is None; otherwise when the forward pass
\* fails), which leaves the handler with a 500, or returns its results
NliBatch(t) ==
    /\ Dispatchable(phase)
    /\ loop \in {0, t}
    /\ tasks[t].pc = "loop"
    /\ tasks[t].i < Len(tasks[t].req.pairs)
    /\ LET i     == tasks[t].i
           batch == Slice(tasks[t].req.pairs, i, i + cfg.BATCH_SIZE)
           calls == Append(tasks[t].calls, <<i, i + Len(batch)>>)
       IN  \/ /\ tasks' = [tasks EXCEPT ![t] = BatchFailure(tasks[t], calls)]
              /\ loop' = 0
           \/ /\ ~BatchRaises(G)
              /\ tasks' = [tasks EXCEPT
                    ![t].calls = calls,
                    ![t].results = @ \o classify_batch(batch, model, label_map),
                    ![t].i = NextIndex(i, cfg.BATCH_SIZE)]
              /\ loop' = IF Awaits("batch") THEN 0 ELSE t
    /\ SetGlobals(HandlerGlobals(tasks[t].req, G))
    /\ UNCHANGED <<cfg, phase>>

\* line 183
NliReturn(t) ==
    /\ Dispatchable(phase)
    /\ loop \in {0, t}
    /\ tasks[t].pc = "loop"
    /\ tasks[t].i >= Len(tasks[t].req.pairs)
    /\ tasks' = [tasks EXCEPT ![t].pc = "done",
                              ![t].resp = Response(200, tasks[t].results, NoBody)]
    /\ loop' = 0
    /\ SetGlobals(HandlerGlobals(tasks[t].req, G))
    /\ UNCHANGED <<cfg, phase>>

\* the response has been written to the client
Reap(t) ==
    /\ Dispatchable(phase)
    /\ tasks[t].pc = "done"
    /\ tasks' = [tasks EXCEPT ![t] = IdleTask]
    /\ UNCHANGED <<cfg, model, tokenizer, label_map, phase, loop>>

Handler(t) ==
    \/ HealthCheck(t)
    \/ Root(t)
    \/ NliEnter(t)
    \/ NliBatch(t)
    \/ NliReturn(t)

\* Spec: one connection, every request size
Next ==
    \/ Startup
    \/ Shutdown
    \/ \E req \in Requests : Receive(1, req)
    \/ \E t \in Tasks : Handler(t)
    \/ \E t \in Tasks : Reap(t)

Spec == Init /\ [][Next]_vars

\* a handler that holds the event loop runs on: no step of lines 166-183 waits
\* for anything outside the process
SpecFair == Spec /\ WF_vars(\E t \in Tasks : NliBatch(t) \/ NliReturn(t))

\* SpecConc: every connection receives; POST /nli of one or ConcLen pairs and
\* GET /health; the DeBERTa checkpoint on the cpu, one pair or one request per
\* batch
ConcLen == 2

ConcRequests ==
    { [kind |-> "nli", pairs |-> ReqPairs(n, 0), model |-> "None"] : n \in {1, ConcLen} }
    \cup { [kind |-> "nli", pairs |-> ReqPairs(ConcLen, 0), model |-> "other-model"] }
    \cup { [kind |-> "health", pairs |-> << >>, model |-> "None"] }

InitConc ==
    /\ Init
    /\ cfg.DEVICE = "cpu" /\ ~cfg.cudaAvailable
    /\ ContainsDeberta(cfg.NLI_MODEL)
    /\ cfg.BATCH_SIZE \in {1, Min(ConcLen, MaxBatchSize)}

NextConc ==
    \/ Startup
    \/ Shutdown
    \/ \E t \in Tasks, req \in ConcRequests : Receive(t, req)
    \/ \E t \in Tasks : HealthCheck(t) \/ NliEnter(t) \/ NliBatch(t) \/ NliReturn(t)
    \/ \E t \in Tasks : Reap(t)

SpecConc == InitConc /\ [][NextConc]_vars

----------------------------------------------------------------------------
(* Properties *)

NliDone(t) == tasks[t].pc = "done" /\ tasks[t].req.kind = "nli"

NumPairs(t) == Len(tasks[t].req.pairs)

\* the classification of one pair on its own, with the loaded globals
ClassifyOne(pair) == classify_batch(<<pair>>, model, label_map)[1]

\* C1: a request of 1..100 pairs admitted in the ready state and answered with
\* a result list gets exactly one result per pair, the i-th result being the
\* classification of the i-th pair, for every batch size.
C1_ResultsMatchPairs ==
    \A t \in Tasks :
        (/\ NliDone(t)
         /\ tasks[t].adm = "ready"
         /\ tasks[t].resp.status = 200
         /\ NumPairs(t) \in 1..MAX_PAIRS)
        => /\ Len(tasks[t].resp.results) = NumPairs(t)
           /\ \A i \in 1..NumPairs(t) :
                 tasks[t].resp.results[i] = ClassifyOne(tasks[t].req.pairs[i])

C1_Witness ==
    \E t \in Tasks :
        /\ NliDone(t)
        /\ tasks[t].adm = "ready"
        /\ tasks[t].resp.status = 200
        /\ NumPairs(t) = MAX_PAIRS
        /\ Len(tasks[t].calls) > 1
        /\ Len(tasks[t].resp.results) = MAX_PAIRS
        /\ tasks[t].resp.results[1] # tasks[t].resp.results[2]

\* C2 as stated: an empty pair list is answered with success and an empty
\* result list in every state in which the request can be received.
C2_EmptyAlwaysSucceeds ==
    \A t \in Tasks :
        (NliDone(t) /\ NumPairs(t) = 0)
        => tasks[t].resp = Response(200, << >>, NoBody)

\* C2 amended: an empty pair list is answered with success and an empty result
\* list, without any call of classify_batch, whenever model and tokenizer are
\* loaded; while they are not, it is answered 503.
C2_EmptySucceedsWhenLoaded ==
    \A t \in Tasks :
        (NliDone(t) /\ NumPairs(t) = 0)
        => /\ tasks[t].calls = << >>
           /\ tasks[t].resp =
                 IF tasks[t].adm = "uninitialized"
                 THEN HttpError(503)
                 ELSE Response(200, << >>, NoBody)

C2_Witness ==
    \E t \in Tasks :
        /\ NliDone(t)
        /\ NumPairs(t) = 0
        /\ tasks[t].adm = "ready"
        /\ tasks[t].resp = Response(200, << >>, NoBody)

\* C3: while the service is uninitialized every POST /nli, whatever its pair
\* list, is answered 503 and classify_batch is not called for it.
C3_UninitializedIs503 ==
    \A t \in Tasks :
        (tasks[t].req.kind = "nli" /\ tasks[t].adm = "uninitialized")
        => /\ tasks[t].pc = "done"
           /\ tasks[t].resp = HttpError(503)
           /\ tasks[t].calls = << >>

C3_Witness ==
    \E t \in Tasks :
        /\ NliDone(t)
        /\ tasks[t].adm = "uninitialized"
        /\ NumPairs(t) > MAX_PAIRS
        /\ tasks[t].resp.status = 503

\* C4: in the ready state more than 100 pairs are answered 400 without any
\* call of classify_batch, and exactly 100 pairs pass the gate and, when a
\* result list is returned, all 100 are classified.
C4_CapIsInclusive ==
    \A t \in Tasks :
        (tasks[t].req.kind = "nli" /\ tasks[t].adm = "ready")
        => /\ NumPairs(t) > MAX_PAIRS =>
                /\ tasks[t].pc = "done"
                /\ tasks[t].resp = HttpError(400)
                /\ tasks[t].calls = << >>
           /\ NumPairs(t) = MAX_PAIRS =>
                /\ tasks[t].pc \in {"loop", "done"}
                /\ tasks[t].pc = "done" =>
                      /\ tasks[t].resp.status \in {200, 500}
                      /\ tasks[t].calls # << >>
                      /\ tasks[t].resp.status = 200 =>
                            /\ Len(tasks[t].resp.results) = MAX_PAIRS
                            /\ tasks[t].calls[Len(tasks[t].calls)][2] = MAX_PAIRS

C4_Witness ==
    \E t \in Tasks :
        /\ NliDone(t)
        /\ tasks[t].adm = "ready"
        /\ NumPairs(t) = MAX_PAIRS
        /\ tasks[t].resp.status = 200
        /\ Len(tasks[t].resp.results) = MAX_PAIRS

\* the other half of C4's case: a request of 101 pairs turned away in ready
C4_Rejected101 ==
    \E t \in Tasks :
        /\ NliDone(t)
        /\ tasks[t].adm = "ready"
        /\ NumPairs(t) = MAX_PAIRS + 1
        /\ tasks[t].resp.status = 400

\* C5 as stated: a POST /nli that arrives once the lifespan is past its yield
\* is never admitted and never reaches classify_batch, and no request is
\* admitted to the classification loop in a lifecycle state other than ready.
C5_NoAdmissionAfterTeardown ==
    \A t \in Tasks :
        tasks[t].req.kind = "nli"
        => /\ tasks[t].pc = "loop" => tasks[t].adm = "ready"
           /\ tasks[t].arr = "shutting_down"
                 => tasks[t].pc # "loop" /\ tasks[t].calls = << >>

\* C6: GET /health answered before the uninitialized -> ready transition is a
\* 503; answered in the ready state it is healthy and names the configured
\* model identifier.
C6_HealthFollowsReadiness ==
    \A t \in Tasks :
        (tasks[t].pc = "done" /\ tasks[t].req.kind = "health")
        => /\ tasks[t].adm = "uninitialized" => tasks[t].resp = HttpError(503)
           /\ tasks[t].adm = "ready" =>
                /\ tasks[t].resp.status = 200
                /\ tasks[t].resp.body.status = "healthy"
                /\ tasks[t].resp.body.model = cfg.NLI_MODEL

C6_Witness ==
    \E t \in Tasks :
        /\ tasks[t].pc = "done"
        /\ tasks[t].req.kind = "health"
        /\ tasks[t].arr = "ready"
        /\ tasks[t].adm = "ready"
        /\ tasks[t].resp.body.status = "healthy"

\* the other half of C6's case: a health query answered before the transition
C6_Unhealthy ==
    \E t \in Tasks :
        /\ tasks[t].pc = "done"
        /\ tasks[t].req.kind = "health"
        /\ tasks[t].adm = "uninitialized"
        /\ tasks[t].resp.status = 503

\* C7 as stated: GET /health answers healthy only in the ready state.
C7_HealthyOnlyWhenReady ==
    \A t \in Tasks :
        (/\ tasks[t].pc = "done"
         /\ tasks[t].req.kind = "health"
         /\ tasks[t].resp.status = 200)
        => tasks[t].adm = "ready"

FreshGlobals == Globals(None, None, NoneMap)

FullyLoaded == G = LoadModelPrefix(cfg, FreshGlobals, LOAD_STEPS)

\* C8: the globals are populated once, by the startup step, and never change
\* afterwards: a step that changes any of them starts in the uninitialized
\* position with all three unset, no step changes one that is set, and every
\* classification uses the label map selected for the configured model.
C8_PopulatedOnceThenReadOnly ==
    [][ /\ model # None => model' = model
        /\ tokenizer # None => tokenizer' = tokenizer
        /\ label_map # NoneMap => label_map' = label_map
        /\ <<model, tokenizer, label_map>>' # <<model, tokenizer, label_map>>
              => phase = "uninitialized" /\ G = FreshGlobals /\ tasks' = tasks
        /\ \A t \in Tasks :
              tasks'[t].calls # tasks[t].calls
                 => label_map = SelectLabelMap(cfg) /\ label_map' = label_map
      ]_vars

C8_Witness ==
    \E t \in Tasks :
        /\ NliDone(t)
        /\ tasks[t].resp.status = 200
        /\ Len(tasks[t].calls) > 1
        /\ label_map = SelectLabelMap(cfg)
        /\ phase = "shutting_down"

\* C9: a failed load_model leaves the service out of the ready state for good
\* and no request is served against what it left behind: the ready state has
\* all of ServiceState populated, no handler runs in the failed position, and
\* every classification and every healthy answer sees a fully loaded state.
C9_FailedLoadServesNothing ==
    /\ phase = "ready" => FullyLoaded
    /\ \A t \in Tasks :
          /\ tasks[t].adm # "failed"
          /\ tasks[t].arr # "failed"
          /\ (\/ tasks[t].pc = "loop"
              \/ /\ tasks[t].pc = "done"
                 /\ tasks[t].req.kind \in {"nli", "health"}
                 /\ tasks[t].resp.status = 200)
             => FullyLoaded

C9_Witness ==
    /\ phase = "failed"
    /\ model # None
    /\ label_map = NoneMap
    /\ \E t \in Tasks : tasks[t].pc = "start" /\ tasks[t].req.kind = "health"

\* C10: in every returned result the label is a key of the scores mapping that
\* holds its maximum, and confidence is the score of that label.
C10_LabelIsArgmaxOfScores ==
    \A t \in Tasks :
        (NliDone(t) /\ tasks[t].resp.status = 200)
        => \A i \in 1..Len(tasks[t].resp.results) :
              LET r == tasks[t].resp.results[i] IN
              /\ r.label \in DOMAIN r.scores
              /\ \A l \in DOMAIN r.scores : r.scores[l] <= r.scores[r.label]
              /\ r.confidence = r.scores[r.label]

C10_Witness ==
    \E t \in Tasks :
        /\ NliDone(t)
        /\ tasks[t].resp.status = 200
        /\ \E i \in 1..Len(tasks[t].resp.results) :
              LET r == tasks[t].resp.results[i] IN
              /\ r.label # label_map[0]
              /\ \A l \in DOMAIN r.scores \ {r.label} : r.scores[l] < r.confidence

\* 1e-4 in units of 1/Scale
TOLERANCE == Scale \div 10000

ScoreSum(r) == r.scores["entailment"] + r.scores["neutral"] + r.scores["contradiction"]

\* C11: in every returned result the keys of scores are exactly the three
\* canonical labels, every score lies in [0, 1] and the scores sum to 1 within
\* 1e-4, under either label map.
C11_ScoresAreDistribution ==
    \A t \in Tasks :
        (NliDone(t) /\ tasks[t].resp.status = 200)
        => \A i \in 1..Len(tasks[t].resp.results) :
              LET r == tasks[t].resp.results[i] IN
              /\ DOMAIN r.scores = Labels
              /\ \A l \in Labels : 0 <= r.scores[l] /\ r.scores[l] <= Scale
              /\ ScoreSum(r) - Scale <= TOLERANCE
              /\ Scale - ScoreSum(r) <= TOLERANCE

C11_Witness ==
    \E t \in Tasks :
        /\ NliDone(t)
        /\ tasks[t].resp.status = 200
        /\ label_map = DEBERTA_LABEL_MAP
        /\ \E i \in 1..Len(tasks[t].resp.results) :
              LET r == tasks[t].resp.results[i] IN
              /\ ScoreSum(r) # Scale
              /\ r.scores["entailment"] # r.scores["contradiction"]

\* the same case under the other label map
C11_WitnessPlainMap ==
    \E t \in Tasks :
        /\ NliDone(t)
        /\ tasks[t].resp.status = 200
        /\ label_map = LABEL_MAP
        /\ \E i \in 1..Len(tasks[t].resp.results) :
              tasks[t].resp.results[i].scores["entailment"]
                 # tasks[t].resp.results[i].scores["contradiction"]

\* C12: the result list assembled from the contiguous slices of BATCH_SIZE
\* pairs equals classify_batch applied once to the whole pair list.
C12_BatchBoundaryInvariance ==
    \A t \in Tasks :
        (NliDone(t) /\ tasks[t].resp.status = 200 /\ NumPairs(t) > 0)
        => tasks[t].resp.results = classify_batch(tasks[t].req.pairs, model, label_map)

\* three or more slices, the last one shorter, and a pair that is padded in
\* the whole list but not in its own slice
C12_Witness ==
    \E t \in Tasks :
        /\ NliDone(t)
        /\ tasks[t].resp.status = 200
        /\ Len(tasks[t].calls) >= 3
        /\ cfg.BATCH_SIZE = 1
        /\ NumPairs(t) = SmallLen
        /\ tasks[t].resp.results = classify_batch(tasks[t].req.pairs, model, label_map)

\* C13: two POST /nli requests that differ only in the model field and are
\* handled in the same service state get the same response (unless a batch of
\* one of them raised), and handling a request that names a model leaves
\* model, tokenizer and label_map as they were.
C13_ModelFieldIgnored ==
    [][ /\ \A t, u \in Tasks :
              (/\ NliDone(t) /\ NliDone(u)
               /\ tasks[t].req.pairs = tasks[u].req.pairs
               /\ tasks[t].req.model # tasks[u].req.model
               /\ tasks[t].adm = tasks[u].adm
               /\ tasks[t].resp.status # 500
               /\ tasks[u].resp.status # 500)
              => /\ tasks[t].resp = tasks[u].resp
                 /\ tasks[t].calls = tasks[u].calls
        /\ \A t \in Tasks :
              (tasks[t].req.model # "None" /\ tasks'[t] # tasks[t]) => G' = G
      ]_vars

C13_Witness ==
    \E t, u \in Tasks :
        /\ NliDone(t) /\ NliDone(u)
        /\ tasks[t].req.pairs = tasks[u].req.pairs
        /\ tasks[t].req.model = "None"
        /\ tasks[u].req.model = "other-model"
        /\ tasks[t].adm = "ready" /\ tasks[u].adm = "ready"
        /\ tasks[t].resp.status = 200
        /\ tasks[u].resp = tasks[t].resp

\* C14: two POST /nli requests with the same pairs that the same ready process
\* answers with a result list get the same result list, whatever was handled
\* before, between or next to them.
C14_SamePairsSameResults ==
    \A t, u \in Tasks :
        (/\ NliDone(t) /\ NliDone(u)
         /\ tasks[t].adm = "ready" /\ tasks[u].adm = "ready"
         /\ tasks[t].resp.status = 200 /\ tasks[u].resp.status = 200
         /\ tasks[t].req.pairs = tasks[u].req.pairs)
        => tasks[t].resp.results = tasks[u].resp.results

C14_Witness ==
    \E t, u \in Tasks :
        /\ t # u
        /\ NliDone(t) /\ NliDone(u)
        /\ tasks[t].adm = "ready" /\ tasks[u].adm = "ready"
        /\ tasks[t].resp.status = 200 /\ tasks[u].resp.status = 200
        /\ tasks[t].req = tasks[u].req
        /\ NumPairs(t) = ConcLen
        /\ tasks[t].resp.results = tasks[u].resp.results

Ceil(n, B) == (n + B - 1) \div B

\* the slices of an admitted request so far: the j-th is [(j-1)B, min(jB, n)),
\* which makes them contiguous, disjoint, non-empty and at most B long
SlicesInOrder(t) ==
    LET n == NumPairs(t)
        B == cfg.BATCH_SIZE
        k == Len(tasks[t].calls)
    IN  /\ k <= Ceil(n, B)
        /\ \A j \in 1..k :
              /\ tasks[t].calls[j] = <<(j - 1) * B, Min(j * B, n)>>
              /\ tasks[t].calls[j][1] < tasks[t].calls[j][2]
              /\ tasks[t].calls[j][2] - tasks[t].calls[j][1] <= B
              /\ (j < Ceil(n, B)) => tasks[t].calls[j][2] - tasks[t].calls[j][1] = B
        /\ tasks[t].pc = "loop" => tasks[t].i = k * B
        /\ (tasks[t].pc = "done" /\ tasks[t].resp.status = 200 /\ n >= 1)
              => k = Ceil(n, B) /\ tasks[t].calls[k][2] = n

\* C15: an admitted request of n >= 1 pairs calls classify_batch ceil(n/B)
\* times, on the slices [0,B), [B,2B), ... in this order, each non-empty and at
\* most B long, together covering the n pairs, and its loop terminates.
C15_SlicesCoverInOrder ==
    /\ [](\A t \in Tasks : tasks[t].req.kind = "nli" => SlicesInOrder(t))
    /\ \A t \in Tasks : (tasks[t].pc = "loop") ~> (tasks[t].pc = "done")

C15_Witness ==
    \E t \in Tasks :
        /\ NliDone(t)
        /\ tasks[t].resp.status = 200
        /\ NumPairs(t) = MAX_PAIRS
        /\ cfg.BATCH_SIZE = MaxBatchSize
        /\ Len(tasks[t].calls) = Ceil(MAX_PAIRS, MaxBatchSize)

\* C16: when classify_batch raises on a batch, the request is answered 500
\* with no result list, never with the results of the earlier batches; no
\* further batch of that request runs; the globals are left as they were.
C16_BatchFailureFailsRequest ==
    [][ \A t \in Tasks :
          /\ (tasks'[t].resp.status = 500 /\ tasks[t].resp.status # 500)
                => /\ tasks[t].pc = "loop"
                   /\ tasks'[t].pc = "done"
                   /\ tasks'[t].resp = HttpError(500)
                   /\ Len(tasks'[t].calls) = Len(tasks[t].calls) + 1
                   /\ G' = G
                   /\ loop' = 0
          /\ tasks[t].pc = "done"
                => tasks'[t] = tasks[t] \/ tasks'[t] = IdleTask
          /\ (NliDone(t) /\ tasks[t].resp.status = 200)
                => Len(tasks[t].resp.results) = NumPairs(t)
          /\ (tasks[t].req.kind = "nli" /\ tasks[t].pc = "loop" /\ tasks'[t].pc = "done")
                => \/ tasks'[t].resp.status = 500
                   \/ /\ tasks'[t].resp.status = 200
                      /\ tasks'[t].calls = tasks[t].calls
                      /\ Len(tasks[t].calls) = Ceil(NumPairs(t), cfg.BATCH_SIZE)
      ]_vars

\* a request that failed on a later batch, after earlier batches had succeeded
C16_Witness ==
    \E t \in Tasks :
        /\ NliDone(t)
        /\ tasks[t].resp = HttpError(500)
        /\ Len(tasks[t].calls) >= 2
        /\ tasks[t].results # << >>
        /\ tasks[t].calls[Len(tasks[t].calls)][2] < NumPairs(t)

\* C17 as stated: once the model is loaded, GET /health and GET / report the
\* device on which load_model placed the model.
C17_ReportedDeviceIsActive ==
    \A t \in Tasks :
        (/\ tasks[t].pc = "done"
         /\ tasks[t].req.kind \in {"health", "root"}
         /\ tasks[t].resp.status = 200
         /\ tasks[t].adm = "ready")
        => tasks[t].resp.body.device = model.device

\* a step of the handler of u, as opposed to the arrival of its request or the
\* delivery of its response
HandlerStep(u) ==
    \/ tasks[u].pc = "start" /\ tasks'[u].pc # "start"
    \/ tasks[u].pc = "loop" /\ tasks'[u] # tasks[u]

\* C18: from the admission of a POST /nli to its response its handler holds
\* the event loop: no step of another handler, of the startup or of the
\* shutdown happens in between, and two requests are never inside the
\* classification loop together.
C18_NoInterleaving ==
    [][ \A t \in Tasks :
          tasks[t].pc = "loop"
             => /\ loop = t
                /\ \A u \in Tasks \ {t} : tasks[u].pc # "loop" /\ ~HandlerStep(u)
                /\ phase' = phase
                /\ G' = G
      ]_vars

\* a request between two of its batches while another POST /nli is waiting
C18_Witness ==
    \E t, u \in Tasks :
        /\ t # u
        /\ tasks[t].pc = "loop"
        /\ tasks[t].calls # << >>
        /\ tasks[t].i < NumPairs(t)
        /\ tasks[u].pc = "start"
        /\ tasks[u].req.kind = "nli"

\* C19: wherever a handler can run, a loaded model comes with a loaded
\* tokenizer and label map; so a healthy answer means POST /nli would pass its
\* None test, and a request inside the loop finds every global that
\* classify_batch uses.
C19_GatesConsistent ==
    /\ (Dispatchable(phase) /\ model # None)
          => tokenizer # None /\ label_map # NoneMap
    /\ \A t \in Tasks :
          /\ (tasks[t].pc = "done" /\ tasks[t].req.kind = "health"
                 /\ tasks[t].resp.status = 200)
                => \A req \in NliRequests : NliGate(req, G) # "unavailable"
          /\ tasks[t].pc = "loop" => ~BatchRaises(G)

C19_Witness ==
    \E t \in Tasks :
        /\ tasks[t].pc = "loop"
        /\ tasks[t].calls # << >>
        /\ model # None
        /\ label_map = SelectLabelMap(cfg)
        /\ \A req \in NliRequests : NliGate(req, G) # "unavailable"

====
